---- MODULE Spec2Model ----
(***************************************************************************)
(* A model of hs_timer (src/hs_timer.c): one timer object, the thread that *)
(* owns it, the POSIX one-shot alarm behind it (timer_create /             *)
(* timer_settime / timer_delete with SIGEV_THREAD) and the notification    *)
(* threads the alarm spawns, each running hs_timer_thread.                 *)
(*                                                                         *)
(* Every public function runs between pthread_mutex_lock and               *)
(* pthread_mutex_unlock, so each is one action: it needs the mutex free    *)
(* and leaves it as the code's return path leaves it.  hs_timer_thread is  *)
(* cut where it gives the mutex up: its first locked section, the unlocked *)
(* read and call of the user callback, the callback's return, and its      *)
(* second locked section.  A callback may call the API on its own timer.   *)
(*                                                                         *)
(* Spec is the whole program.  The other specifications are parts of it:   *)
(* SpecReliable (no failing alarm call, fair threads), SpecOnce and        *)
(* SpecCount (one init, finite count), SpecForever (forever count),        *)
(* SpecQuiet (no firing), SpecRace (timer_cb loaded twice at lines         *)
(* 132-134) and SpecCallback (pthread_mutex_lock as a step of its own,     *)
(* every call but the first init made from the callback).                  *)
(***************************************************************************)
EXTENDS Integers, Sequences, FiniteSets, TLC

\* ---------------------------------------------------------------- bounds
\* notification threads that can be in flight at the same time
MaxHandlers == 2
\* finite repeat counts range over 0..MaxRepeat
MaxRepeat == 3

\* ------------------------------------------------------------- constants
\* UINT32_MAX (0xFFFFFFFF) does not fit TLC's 32-bit signed integers; it is
\* represented by the largest integer TLC has.  The code only compares
\* repeat_count with it (< and ==) and never computes with it.
UINT32_MAX == 2147483647
HS_TIMER_REPEAT_ONCE == 1
HS_TIMER_REPEAT_FOREVER == UINT32_MAX

E_HS_TIMER_STATUS_CREATED == "CREATED"
E_HS_TIMER_STATUS_RUNNING == "RUNNING"
E_HS_TIMER_STATUS_PAUSED == "PAUSED"
E_HS_TIMER_STATUS_REQUEST_DESTROY == "REQUEST_DESTROY"

NULL == "NULL"

\* ----------------------------------------------------------- input sets
\* threads: the notification threads 1..MaxHandlers, then the owner
Handlers == 1..MaxHandlers
Owner == MaxHandlers + 1
Threads == Handlers \cup {Owner}

Callbacks == {NULL, "cb"}
RepeatValues == (0..MaxRepeat) \cup {HS_TIMER_REPEAT_FOREVER}
TimeoutValues == {0, 1500}
UserData == {NULL, "ud"}

NoVal == "-"
\* a history counter that is switched off
NoCount == 0 - 1

VARIABLES
  heap,          \* "live" | "freed": the malloc'ed struct _hs_timer
  status,        \* hs_timer->status
  timer_cb,      \* hs_timer->timer_cb
  repeat_count,  \* hs_timer->repeat_count
  timeout_ms,    \* hs_timer->timeout_ms
  user_data,     \* hs_timer->user_data
  timer_id,      \* hs_timer->timer_id: "uninit" | "valid" | "deleted"
  it_value,      \* the alarm's programmed expiry; all zero = disarmed
  mutex,         \* hs_timer->mutex: the set of threads holding it (0 or 1)
  pc,            \* where each notification thread is in hs_timer_thread
  api,           \* the last public call that returned: function, result
  may_fail,      \* whether timer_create / timer_settime may fail
  frees,         \* history: the code paths that called free(hs_timer)
  uaf,           \* history: a notification thread touched the freed object
  fired,         \* history: callbacks begun since the last successful init
  init_rc,       \* history: repeat_count given to the last successful init
  deferred,      \* history: destroy() hit the RUNNING case, no init call since
  paused_quiet   \* history: pause() returned 0, no resume/ready/init call since

fields == <<status, timer_cb, repeat_count, timeout_ms, user_data>>
alarm == <<timer_id, it_value>>
hist == <<frees, uaf, fired, init_rc, deferred, paused_quiet>>
vars == <<heap, fields, alarm, mutex, pc, api, may_fail, hist>>

\* ------------------------------------------------------- alarm service
ZeroSpec == [tv_sec |-> 0, tv_nsec |-> 0]

\* struct itimerspec's it_value for a one-shot alarm of ms milliseconds
hs_timer_ms_to_timespec_one_shot(ms) ==
  [tv_sec |-> ms \div 1000, tv_nsec |-> (ms % 1000) * 1000000]

\* the it_value hs_timer_ready programs: 1 ns
ReadySpec == [tv_sec |-> 0, tv_nsec |-> 1]

\* timer_settime arms the alarm iff it_value is not all zero
Armed(v) == v.tv_sec # 0 \/ v.tv_nsec # 0

\* results a call to the alarm service can have (TRUE: it succeeds)
Outcomes == IF may_fail THEN {TRUE, FALSE} ELSE {TRUE}

\* timer_settime(timer_id, 0, spec): TRUE when it returns 0.  On an id that
\* is not a live registration the call is an error (or undefined behaviour
\* for an unset id): it programs nothing and may return either way.
SettimeResults == IF timer_id = "valid" THEN Outcomes ELSE {TRUE, FALSE}
AfterSettime(ok, spec) == IF ok /\ timer_id = "valid" THEN spec ELSE it_value

\* timer_delete(timer_id): the registration is gone, and its countdown
DeletedId == IF timer_id = "valid" THEN "deleted" ELSE timer_id
DeletedIt == IF timer_id = "valid" THEN ZeroSpec ELSE it_value

\* ------------------------------------------------------------- helpers
\* (mutant) the status check lets REQUEST_DESTROY through
hs_timer_can_set_params_Always == TRUE

\* lines 56-57
hs_timer_can_set_params ==
  \/ status = E_HS_TIMER_STATUS_CREATED
  \/ status = E_HS_TIMER_STATUS_RUNNING
  \/ status = E_HS_TIMER_STATUS_PAUSED

\* (mutant) the decrement skips a count of 1
FiniteCount_SkipsOne == repeat_count > 1 /\ repeat_count < UINT32_MAX

\* (mutant) the notification thread never decrements
FiniteCount_Never == FALSE

\* (mutant) the decrement does not spare the forever sentinel
FiniteCount_NoSentinel == repeat_count > 0

\* line 120: the repeat count is finite and not yet used up
FiniteCount == repeat_count > 0 /\ repeat_count < UINT32_MAX

\* (mutant) the teardown after the callback forgets the destroy request
TeardownAfterCallback_CountOnly == repeat_count = 0

\* line 139: tear down after the callback
TeardownAfterCallback ==
  status = E_HS_TIMER_STATUS_REQUEST_DESTROY \/ repeat_count = 0

\* (mutant) the rearm after the callback does not look at the status
RearmAfterCallback_AnyStatus == repeat_count # 0

\* line 150: rearm after the callback
RearmAfterCallback ==
  status = E_HS_TIMER_STATUS_RUNNING /\ repeat_count # 0

\* lines 448 and 482: ready and pause need RUNNING or PAUSED
RunningOrPaused ==
  status = E_HS_TIMER_STATUS_RUNNING \/ status = E_HS_TIMER_STATUS_PAUSED

\* the callback count saturates one above the largest finite repeat count
FiredCap == MaxRepeat + 1
Bump(n) == IF n = NoCount \/ n = FiredCap THEN n ELSE n + 1

\* pthread_mutex_destroy + free(hs_timer) on code path p
Freed(p) ==
  /\ heap' = "freed"
  /\ frees' = IF Len(frees) < 2 THEN Append(frees, p) ELSE frees

Returns(o, r, v) == api' = [op |-> o, ret |-> r, val |-> v]

\* who may be inside a public function: the owner at any time, a
\* notification thread while it runs the user callback
CanCall(t) == IF t \in Handlers THEN pc[t] = "incb" ELSE TRUE

\* pthread_mutex_lock returns, on an object that is still there: the mutex
\* is free, or t took it in an earlier step (pthread_mutex_lock below)
Locks(t) ==
  /\ heap = "live"
  /\ CanCall(t)
  /\ mutex \subseteq {t}

\* pthread_mutex_unlock on every return path
Unlocks == mutex' = {}

\* the state hs_timer_create returns
Created ==
  /\ heap = "live"
  /\ status = E_HS_TIMER_STATUS_CREATED
  /\ timer_cb = NULL
  /\ repeat_count = UINT32_MAX
  /\ timeout_ms = 0
  /\ user_data = NULL
  /\ timer_id = "uninit"
  /\ it_value = ZeroSpec
  /\ mutex = {}
  /\ pc = [h \in Handlers |-> "idle"]
  /\ api = [op |-> "create", ret |-> 0, val |-> NoVal]
  /\ frees = <<>>
  /\ uaf = FALSE
  /\ deferred = FALSE
  /\ paused_quiet = FALSE

Init ==
  /\ Created
  /\ may_fail = TRUE
  /\ fired = NoCount
  /\ init_rc = NoCount

\* ------------------------------------------------- notification threads
\* The alarm expires: it is one-shot, so it is disarmed, and a new thread
\* starts hs_timer_thread with the timer object as its argument.
AlarmFire ==
  /\ timer_id = "valid"
  /\ Armed(it_value)
  /\ \E h \in Handlers :
       /\ pc[h] = "idle"
       /\ \A g \in Handlers : g < h => pc[g] # "idle"
       /\ pc' = [pc EXCEPT ![h] = "lock1"]
  /\ it_value' = ZeroSpec
  /\ UNCHANGED <<heap, fields, timer_id, mutex, api, may_fail, hist>>

\* A use of the freed object is undefined: the thread may die on it ...
hs_timer_thread_fault(h) ==
  /\ heap = "freed"
  /\ pc[h] \in {"lock1", "readcb", "lock2"}
  /\ pc' = [pc EXCEPT ![h] = "idle"]
  /\ uaf' = TRUE
  /\ UNCHANGED <<heap, fields, alarm, mutex, api, may_fail, frees,
                 fired, init_rc, deferred, paused_quiet>>

\* ... or go on with the bytes the object left behind, as the steps below do.
Touch == uaf' = (uaf \/ heap = "freed")

\* lines 106-129: lock; tear down on REQUEST_DESTROY, else count the firing
\* and unlock
hs_timer_thread_entry(h) ==
  /\ pc[h] = "lock1"
  /\ mutex \subseteq {h}
  /\ Touch
  /\ Unlocks
  /\ IF status = E_HS_TIMER_STATUS_REQUEST_DESTROY
     THEN /\ timer_id' = DeletedId
          /\ it_value' = DeletedIt
          /\ Freed("thread_entry")
          /\ pc' = [pc EXCEPT ![h] = "idle"]
          /\ UNCHANGED fields
     ELSE /\ IF FiniteCount
             THEN /\ repeat_count' = repeat_count - 1
                  /\ status' = IF repeat_count - 1 = 0
                               THEN E_HS_TIMER_STATUS_REQUEST_DESTROY
                               ELSE status
             ELSE UNCHANGED <<repeat_count, status>>
          /\ pc' = [pc EXCEPT ![h] = "readcb"]
          /\ UNCHANGED <<heap, frees, alarm, timer_cb, timeout_ms, user_data>>
  /\ UNCHANGED <<api, may_fail, fired, init_rc, deferred, paused_quiet>>

\* lines 132-135: read timer_cb without the lock and call it
hs_timer_thread_call_cb(h) ==
  /\ pc[h] = "readcb"
  /\ Touch
  /\ IF timer_cb # NULL
     THEN /\ pc' = [pc EXCEPT ![h] = "incb"]
          /\ fired' = Bump(fired)
     ELSE /\ pc' = [pc EXCEPT ![h] = "lock2"]
          /\ UNCHANGED fired
  /\ UNCHANGED <<heap, fields, alarm, mutex, api, may_fail, frees,
                 init_rc, deferred, paused_quiet>>

\* the user callback returns
CallbackReturn(h) ==
  /\ pc[h] = "incb"
  /\ h \notin mutex
  /\ pc' = [pc EXCEPT ![h] = "lock2"]
  /\ UNCHANGED <<heap, fields, alarm, mutex, api, may_fail, hist>>

\* lines 138-163: lock; tear down, or rearm when still RUNNING; unlock
hs_timer_thread_exit(h) ==
  /\ pc[h] = "lock2"
  /\ mutex \subseteq {h}
  /\ Touch
  /\ Unlocks
  /\ pc' = [pc EXCEPT ![h] = "idle"]
  /\ IF TeardownAfterCallback
     THEN /\ timer_id' = DeletedId
          /\ it_value' = DeletedIt
          /\ Freed("thread_exit")
     ELSE IF RearmAfterCallback
     THEN /\ \E ok \in SettimeResults :
               it_value' = AfterSettime(ok,
                             hs_timer_ms_to_timespec_one_shot(timeout_ms))
          /\ UNCHANGED <<heap, frees, timer_id>>
     ELSE UNCHANGED <<heap, frees, alarm>>
  /\ UNCHANGED <<fields, api, may_fail, fired, init_rc, deferred,
                 paused_quiet>>

\* ------------------------------------------------------- public calls
\* lines 192-238; the arguments are drawn where the code first uses them
hs_timer_init(t) ==
  /\ Locks(t)
  /\ Unlocks
  /\ deferred' = FALSE
  /\ paused_quiet' = FALSE
  /\ LET reinit == status # E_HS_TIMER_STATUS_CREATED
     IN  \E created \in Outcomes :
           IF ~created
           THEN /\ timer_id' = IF reinit THEN DeletedId ELSE timer_id
                /\ it_value' = IF reinit THEN DeletedIt ELSE it_value
                /\ Returns("init", -3, NoVal)
                /\ UNCHANGED <<fields, fired, init_rc>>
           ELSE \E armed \in Outcomes :
             IF ~armed
             THEN /\ timer_id' = "deleted"
                  /\ it_value' = ZeroSpec
                  /\ Returns("init", -5, NoVal)
                  /\ UNCHANGED <<fields, fired, init_rc>>
             ELSE \E cb \in Callbacks, rc \in RepeatValues,
                     tmo \in TimeoutValues, ud \in UserData :
                  /\ timer_id' = "valid"
                  /\ it_value' = hs_timer_ms_to_timespec_one_shot(tmo)
                  /\ status' = E_HS_TIMER_STATUS_RUNNING
                  /\ timer_cb' = cb
                  /\ repeat_count' = rc
                  /\ timeout_ms' = tmo
                  /\ user_data' = ud
                  /\ fired' = IF fired = NoCount THEN NoCount ELSE 0
                  /\ init_rc' = IF init_rc = NoCount THEN NoCount ELSE rc
                  /\ Returns("init", 0, NoVal)
  /\ UNCHANGED <<heap, pc, may_fail, frees, uaf>>

\* lines 248-296
hs_timer_destroy(t) ==
  /\ Locks(t)
  /\ Unlocks
  /\ Returns("destroy", 0, NoVal)
  /\ CASE status = E_HS_TIMER_STATUS_CREATED ->
            /\ Freed("destroy_created")
            /\ UNCHANGED <<fields, alarm, deferred>>
       [] status = E_HS_TIMER_STATUS_RUNNING ->
            /\ status' = E_HS_TIMER_STATUS_REQUEST_DESTROY
            /\ deferred' = TRUE
            /\ UNCHANGED <<heap, frees, timer_cb, repeat_count, timeout_ms,
                           user_data, alarm>>
       [] status = E_HS_TIMER_STATUS_PAUSED ->
            /\ timer_id' = DeletedId
            /\ it_value' = DeletedIt
            /\ Freed("destroy_paused")
            /\ UNCHANGED <<fields, deferred>>
       [] status = E_HS_TIMER_STATUS_REQUEST_DESTROY ->
            UNCHANGED <<heap, frees, fields, alarm, deferred>>
  /\ UNCHANGED <<pc, may_fail, uaf, fired, init_rc, paused_quiet>>

\* lines 306-317
hs_timer_set_cb(t, cb) ==
  /\ Locks(t)
  /\ Unlocks
  /\ IF ~hs_timer_can_set_params
     THEN Returns("set_cb", -2, NoVal) /\ UNCHANGED timer_cb
     ELSE Returns("set_cb", 0, NoVal) /\ timer_cb' = cb
  /\ UNCHANGED <<heap, status, repeat_count, timeout_ms, user_data, alarm,
                 pc, may_fail, hist>>

\* lines 327-338
hs_timer_set_repeat_count(t, rc) ==
  /\ Locks(t)
  /\ Unlocks
  /\ IF ~hs_timer_can_set_params
     THEN Returns("set_repeat_count", -2, NoVal) /\ UNCHANGED repeat_count
     ELSE Returns("set_repeat_count", 0, NoVal) /\ repeat_count' = rc
  /\ UNCHANGED <<heap, status, timer_cb, timeout_ms, user_data, alarm,
                 pc, may_fail, hist>>

\* lines 348-374
hs_timer_set_timeout(t, tmo) ==
  /\ Locks(t)
  /\ Unlocks
  /\ IF ~hs_timer_can_set_params
     THEN /\ Returns("set_timeout", -2, NoVal)
          /\ UNCHANGED <<timeout_ms, it_value>>
     ELSE \E ok \in SettimeResults :
            /\ it_value' = AfterSettime(ok,
                             hs_timer_ms_to_timespec_one_shot(tmo))
            /\ IF ok
               THEN Returns("set_timeout", 0, NoVal) /\ timeout_ms' = tmo
               ELSE Returns("set_timeout", -4, NoVal) /\ UNCHANGED timeout_ms
  /\ UNCHANGED <<heap, status, timer_cb, repeat_count, user_data, timer_id,
                 pc, may_fail, hist>>

\* lines 384-395
hs_timer_set_user_data(t, ud) ==
  /\ Locks(t)
  /\ Unlocks
  /\ IF ~hs_timer_can_set_params
     THEN Returns("set_user_data", -2, NoVal) /\ UNCHANGED user_data
     ELSE Returns("set_user_data", 0, NoVal) /\ user_data' = ud
  /\ UNCHANGED <<heap, status, timer_cb, repeat_count, timeout_ms, alarm,
                 pc, may_fail, hist>>

\* lines 405-409
hs_timer_get_repeat_count(t) ==
  /\ Locks(t)
  /\ Unlocks
  /\ Returns("get_repeat_count", 0, repeat_count)
  /\ UNCHANGED <<heap, fields, alarm, pc, may_fail, hist>>

\* lines 419-423
hs_timer_get_timeout(t) ==
  /\ Locks(t)
  /\ Unlocks
  /\ Returns("get_timeout", 0, timeout_ms)
  /\ UNCHANGED <<heap, fields, alarm, pc, may_fail, hist>>

\* lines 433-437
hs_timer_get_user_data(t) ==
  /\ Locks(t)
  /\ Unlocks
  /\ Returns("get_user_data", 0, user_data)
  /\ UNCHANGED <<heap, fields, alarm, pc, may_fail, hist>>

\* lines 447-471
hs_timer_ready(t) ==
  /\ Locks(t)
  /\ Unlocks
  /\ paused_quiet' = FALSE
  /\ IF ~RunningOrPaused
     THEN /\ Returns("ready", -2, NoVal)
          /\ UNCHANGED <<status, it_value>>
     ELSE \E ok \in SettimeResults :
            /\ it_value' = AfterSettime(ok, ReadySpec)
            /\ IF ok
               THEN /\ Returns("ready", 0, NoVal)
                    /\ status' = E_HS_TIMER_STATUS_RUNNING
               ELSE /\ Returns("ready", -3, NoVal)
                    /\ UNCHANGED status
  /\ UNCHANGED <<heap, timer_cb, repeat_count, timeout_ms, user_data,
                 timer_id, pc, may_fail, frees, uaf, fired, init_rc,
                 deferred>>

\* lines 481-500
hs_timer_pause(t) ==
  /\ Locks(t)
  /\ Unlocks
  /\ IF ~RunningOrPaused
     THEN /\ Returns("pause", -2, NoVal)
          /\ UNCHANGED <<status, it_value, paused_quiet>>
     ELSE \E ok \in SettimeResults :
            /\ it_value' = AfterSettime(ok, ZeroSpec)
            /\ IF ok
               THEN /\ Returns("pause", 0, NoVal)
                    /\ status' = E_HS_TIMER_STATUS_PAUSED
                    /\ paused_quiet' = TRUE
               ELSE /\ Returns("pause", -3, NoVal)
                    /\ UNCHANGED <<status, paused_quiet>>
  /\ UNCHANGED <<heap, timer_cb, repeat_count, timeout_ms, user_data,
                 timer_id, pc, may_fail, frees, uaf, fired, init_rc,
                 deferred>>

\* lines 510-536
hs_timer_resume(t) ==
  /\ Locks(t)
  /\ Unlocks
  /\ paused_quiet' = FALSE
  /\ IF status # E_HS_TIMER_STATUS_PAUSED
     THEN /\ Returns("resume", -2, NoVal)
          /\ UNCHANGED <<status, it_value>>
     ELSE \E ok \in SettimeResults :
            /\ it_value' = AfterSettime(ok,
                             hs_timer_ms_to_timespec_one_shot(timeout_ms))
            /\ IF ok
               THEN /\ Returns("resume", 0, NoVal)
                    /\ status' = E_HS_TIMER_STATUS_RUNNING
               ELSE /\ Returns("resume", -4, NoVal)
                    /\ UNCHANGED status
  /\ UNCHANGED <<heap, timer_cb, repeat_count, timeout_ms, user_data,
                 timer_id, pc, may_fail, frees, uaf, fired, init_rc,
                 deferred>>

\* lines 546-550
hs_timer_is_paused(t) ==
  /\ Locks(t)
  /\ Unlocks
  /\ Returns("is_paused", 0, status = E_HS_TIMER_STATUS_PAUSED)
  /\ UNCHANGED <<heap, fields, alarm, pc, may_fail, hist>>

\* ------------------------------------------------------- specification
\* the alarm, the notification threads and every call that can change the
\* timer
NextChange ==
  \/ AlarmFire
  \/ \E h \in Handlers : hs_timer_thread_entry(h)
  \/ \E h \in Handlers : hs_timer_thread_call_cb(h)
  \/ \E h \in Handlers : CallbackReturn(h)
  \/ \E h \in Handlers : hs_timer_thread_exit(h)
  \/ \E h \in Handlers : hs_timer_thread_fault(h)
  \/ \E t \in Threads : hs_timer_init(t)
  \/ \E t \in Threads : hs_timer_destroy(t)
  \/ \E t \in Threads, cb \in Callbacks : hs_timer_set_cb(t, cb)
  \/ \E t \in Threads, rc \in RepeatValues : hs_timer_set_repeat_count(t, rc)
  \/ \E t \in Threads, tmo \in TimeoutValues : hs_timer_set_timeout(t, tmo)
  \/ \E t \in Threads, ud \in UserData : hs_timer_set_user_data(t, ud)
  \/ \E t \in Threads : hs_timer_ready(t)
  \/ \E t \in Threads : hs_timer_pause(t)
  \/ \E t \in Threads : hs_timer_resume(t)

\* the calls that only read the timer
NextRead ==
  \/ \E t \in Threads : hs_timer_get_repeat_count(t)
  \/ \E t \in Threads : hs_timer_get_timeout(t)
  \/ \E t \in Threads : hs_timer_get_user_data(t)
  \/ \E t \in Threads : hs_timer_is_paused(t)

Next == NextChange \/ NextRead

Spec == Init /\ [][Next]_vars

\* The alarm expires once armed, a spawned thread runs, a callback returns.
Fair ==
  /\ WF_vars(AlarmFire)
  /\ \A h \in Handlers :
       /\ WF_vars(hs_timer_thread_entry(h))
       /\ WF_vars(hs_timer_thread_call_cb(h))
       /\ WF_vars(CallbackReturn(h))
       /\ WF_vars(hs_timer_thread_exit(h))

\* The program with an alarm service whose calls never fail, the calls
\* that only read the timer left out.
InitReliable ==
  /\ Created
  /\ may_fail = FALSE
  /\ fired = NoCount
  /\ init_rc = NoCount

SpecReliable == InitReliable /\ [][NextChange]_vars /\ Fair

\* One timer, initialized once with a finite repeat count and a timeout of
\* at least 1 ms, and then left alone; callbacks are counted.
InitCounting ==
  /\ Created
  /\ may_fail = FALSE
  /\ fired = 0
  /\ init_rc = 0

InitOnce ==
  /\ status = E_HS_TIMER_STATUS_CREATED
  /\ hs_timer_init(Owner)
  /\ repeat_count' \in 1..MaxRepeat
  /\ timeout_ms' >= 1

NextOnce ==
  \/ InitOnce
  \/ AlarmFire
  \/ \E h \in Handlers : hs_timer_thread_entry(h)
  \/ \E h \in Handlers : hs_timer_thread_call_cb(h)
  \/ \E h \in Handlers : CallbackReturn(h)
  \/ \E h \in Handlers : hs_timer_thread_exit(h)

SpecOnce == InitCounting /\ [][NextOnce]_vars /\ Fair

\* ------------------------------------------------------------- claims
ThreadFrees == {"thread_entry", "thread_exit"}
DestroyFrees == {"destroy_created", "destroy_paused"}
AllIdle == \A h \in Handlers : pc[h] = "idle"

\* C1: a timer initialized once with a finite repeat count N >= 1 and a
\* timeout >= 1 ms, and then left alone, has its callback called exactly N
\* times; the notification thread then frees it, no destroy() is needed,
\* and nothing runs on it afterwards.
RetiredAfterN ==
  /\ heap = "freed"
  /\ Len(frees) = 1
  /\ frees[1] \in ThreadFrees
  /\ ~uaf
  /\ AllIdle
  /\ ~Armed(it_value)
  /\ api.op = "init"
  /\ timer_cb # NULL => fired = init_rc

C1_FiresExactlyNThenFreed == [](api.op = "init" => <>[]RetiredAfterN)

C1_Witness ==
  /\ RetiredAfterN
  /\ timer_cb # NULL
  /\ init_rc = MaxRepeat
  /\ fired = MaxRepeat


\* C2: destroy() on a RUNNING timer only marks it; whatever notification
\* threads are in flight, none of them touches the object after the
\* deferred teardown has freed it.
C2_DeferredDestroyNoUseAfterFree == deferred => ~uaf

\* C3: after destroy() on a CREATED or PAUSED timer has freed the object, no
\* notification thread locks, reads or writes it or calls its callback.
C3_SyncDestroyNoUseAfterFree ==
  (frees # <<>> /\ frees[1] \in DestroyFrees) => ~uaf

\* C4: the object and its mutex are freed at most once.
C4_FreedAtMostOnce == Len(frees) <= 1

\* C5: with an alarm service that does not fail, a destroy() that found the
\* timer RUNNING with a timeout >= 1 ms, and that no init call follows, is
\* completed: a notification thread frees the object.
C5_DeferredDestroyCompletes ==
  (deferred /\ timeout_ms >= 1)
    ~> ((heap = "freed" /\ frees[1] \in ThreadFrees) \/ ~deferred)

C5_Witness ==
  /\ deferred
  /\ timeout_ms >= 1
  /\ heap = "freed"
  /\ frees = <<"thread_entry">>

\* a step that is a call of one of the setters, pause, resume or ready
ControlOps ==
  {"set_cb", "set_repeat_count", "set_timeout", "set_user_data",
   "pause", "resume", "ready"}

SetterOrControlCall ==
  /\ api'.op \in ControlOps
  /\ pc' = pc
  /\ \E t \in Threads :
       \/ \E cb \in Callbacks : hs_timer_set_cb(t, cb)
       \/ \E rc \in RepeatValues : hs_timer_set_repeat_count(t, rc)
       \/ \E tmo \in TimeoutValues : hs_timer_set_timeout(t, tmo)
       \/ \E ud \in UserData : hs_timer_set_user_data(t, ud)
       \/ hs_timer_pause(t)
       \/ hs_timer_resume(t)
       \/ hs_timer_ready(t)

InitCall == \E t \in Threads : hs_timer_init(t)
ResumeCall == \E t \in Threads : hs_timer_resume(t)

\* C6: on a live timer in REQUEST_DESTROY every setter, pause, resume and
\* ready returns -2 (invalid state) and changes neither a field nor the
\* alarm.
C6_PendingDestroyRejects ==
  [][(heap = "live" /\ status = E_HS_TIMER_STATUS_REQUEST_DESTROY
        /\ SetterOrControlCall)
       => (api'.ret = -2 /\ UNCHANGED <<fields, alarm>>)]_vars

C6_Witness ==
  /\ heap = "live"
  /\ status = E_HS_TIMER_STATUS_REQUEST_DESTROY
  /\ api = [op |-> "set_timeout", ret |-> -2, val |-> NoVal]
  /\ Armed(it_value)
  /\ timeout_ms # 0

\* C7: once the status of a live timer is REQUEST_DESTROY, no call and no
\* notification thread step makes it RUNNING, PAUSED or CREATED again.
C7_PendingDestroyIsFinal ==
  [][(heap = "live" /\ status = E_HS_TIMER_STATUS_REQUEST_DESTROY)
       => status' \notin {E_HS_TIMER_STATUS_RUNNING, E_HS_TIMER_STATUS_PAUSED,
                          E_HS_TIMER_STATUS_CREATED}]_vars

\* C8: an init call that fails leaves every field as it was, and a RUNNING
\* or PAUSED timer that owned a valid alarm registration still owns it.
C8_FailedInitChangesNothing ==
  [][(InitCall /\ api'.ret # 0)
       => /\ UNCHANGED fields
          /\ (RunningOrPaused /\ timer_id = "valid") => timer_id' = "valid"]_vars

\* C9: after an init or a resume call that returns 0 the status is RUNNING
\* and the alarm is armed.
C9_SuccessArmsTheAlarm ==
  [][((InitCall \/ ResumeCall) /\ api'.ret = 0)
       => (status' = E_HS_TIMER_STATUS_RUNNING /\ Armed(it_value'))]_vars

\* C10: from a pause() that returned 0 until the next resume, ready or init
\* call, no callback begins.
C10_NoCallbackWhilePaused ==
  [][paused_quiet
       => \A h \in Handlers : pc'[h] = "incb" => pc[h] = "incb"]_vars

\* ------------------------------------------------ further specifications
\* The owner's calls on a timer whose alarm never expires, with an alarm
\* service whose calls on a live registration never fail.
NextQuiet ==
  \/ \E t \in Threads : hs_timer_init(t)
  \/ \E t \in Threads : hs_timer_destroy(t)
  \/ \E t \in Threads, cb \in Callbacks : hs_timer_set_cb(t, cb)
  \/ \E t \in Threads, rc \in RepeatValues : hs_timer_set_repeat_count(t, rc)
  \/ \E t \in Threads, tmo \in TimeoutValues : hs_timer_set_timeout(t, tmo)
  \/ \E t \in Threads, ud \in UserData : hs_timer_set_user_data(t, ud)
  \/ \E t \in Threads : hs_timer_ready(t)
  \/ \E t \in Threads : hs_timer_pause(t)
  \/ \E t \in Threads : hs_timer_resume(t)
  \/ NextRead

SpecQuiet == InitReliable /\ [][NextQuiet]_vars

\* C11: on a live timer that is CREATED, RUNNING or PAUSED, set_timeout,
\* set_repeat_count and set_user_data return 0 and store their argument, and
\* get_timeout, get_repeat_count and get_user_data return what is stored.
C11_SetThenGet ==
  [][(heap = "live" /\ hs_timer_can_set_params)
       => /\ \A tmo \in TimeoutValues :
               (\E t \in Threads : hs_timer_set_timeout(t, tmo))
                 => (api'.ret = 0 /\ timeout_ms' = tmo)
          /\ \A rc \in RepeatValues :
               (\E t \in Threads : hs_timer_set_repeat_count(t, rc))
                 => (api'.ret = 0 /\ repeat_count' = rc)
          /\ \A ud \in UserData :
               (\E t \in Threads : hs_timer_set_user_data(t, ud))
                 => (api'.ret = 0 /\ user_data' = ud)
          /\ (\E t \in Threads : hs_timer_get_timeout(t))
               => (api'.ret = 0 /\ api'.val = timeout_ms)
          /\ (\E t \in Threads : hs_timer_get_repeat_count(t))
               => (api'.ret = 0 /\ api'.val = repeat_count)
          /\ (\E t \in Threads : hs_timer_get_user_data(t))
               => (api'.ret = 0 /\ api'.val = user_data)]_vars

\* C12: resume() on a live PAUSED timer with a valid registration either
\* returns 0, with the alarm armed for the full stored timeout_ms and the
\* status RUNNING, or returns -4 with the status still PAUSED; in any other
\* status it returns -2 and changes neither the status nor the alarm.
C12_ResumeRearmsFullTimeout ==
  [][(heap = "live" /\ ResumeCall)
       => IF status = E_HS_TIMER_STATUS_PAUSED
          THEN timer_id = "valid"
                 => \/ /\ api'.ret = 0
                       /\ status' = E_HS_TIMER_STATUS_RUNNING
                       /\ Armed(it_value')
                       /\ it_value' =
                            hs_timer_ms_to_timespec_one_shot(timeout_ms)
                    \/ /\ api'.ret = -4
                       /\ status' = E_HS_TIMER_STATUS_PAUSED
          ELSE api'.ret = -2 /\ UNCHANGED <<status, alarm>>]_vars

\* A timer that is only ever initialized with HS_TIMER_REPEAT_FOREVER and
\* is given neither set_repeat_count nor destroy; the alarm service may
\* fail and callbacks are counted.
InitForever ==
  /\ Created
  /\ may_fail = TRUE
  /\ fired = 0
  /\ init_rc = 0

hs_timer_init_forever ==
  \E t \in Threads :
    /\ hs_timer_init(t)
    /\ api'.ret = 0 => repeat_count' = HS_TIMER_REPEAT_FOREVER

NextForever ==
  \/ hs_timer_init_forever
  \/ AlarmFire
  \/ \E h \in Handlers : hs_timer_thread_entry(h)
  \/ \E h \in Handlers : hs_timer_thread_call_cb(h)
  \/ \E h \in Handlers : CallbackReturn(h)
  \/ \E h \in Handlers : hs_timer_thread_exit(h)
  \/ \E t \in Threads, cb \in Callbacks : hs_timer_set_cb(t, cb)
  \/ \E t \in Threads, tmo \in TimeoutValues : hs_timer_set_timeout(t, tmo)
  \/ \E t \in Threads : hs_timer_ready(t)
  \/ \E t \in Threads : hs_timer_pause(t)
  \/ \E t \in Threads : hs_timer_resume(t)

SpecForever == InitForever /\ [][NextForever]_vars

\* C13: a timer initialized with the forever sentinel, and given neither
\* set_repeat_count nor destroy, keeps its repeat count, never becomes
\* REQUEST_DESTROY and is never freed, whatever fires and whatever pause,
\* resume, ready and set_timeout calls are made.
C13_ForeverNeverSelfTerminates ==
  /\ heap = "live"
  /\ frees = <<>>
  /\ repeat_count = HS_TIMER_REPEAT_FOREVER
  /\ status # E_HS_TIMER_STATUS_REQUEST_DESTROY

C13_Witness ==
  /\ fired = FiredCap
  /\ init_rc = HS_TIMER_REPEAT_FOREVER
  /\ repeat_count = HS_TIMER_REPEAT_FOREVER
  /\ status = E_HS_TIMER_STATUS_RUNNING
  /\ heap = "live"
  /\ AllIdle
  /\ Armed(it_value)

\* a step in which timer_settime or timer_delete is called on
\* hs_timer->timer_id as it is before the step
IssuesAlarmCall ==
  \/ /\ hs_timer_can_set_params
     /\ \E t \in Threads, tmo \in TimeoutValues : hs_timer_set_timeout(t, tmo)
  \/ /\ RunningOrPaused
     /\ \E t \in Threads : hs_timer_ready(t) \/ hs_timer_pause(t)
  \/ /\ status = E_HS_TIMER_STATUS_PAUSED
     /\ \E t \in Threads : hs_timer_resume(t) \/ hs_timer_destroy(t)
  \/ /\ status # E_HS_TIMER_STATUS_CREATED
     /\ InitCall
  \/ /\ status = E_HS_TIMER_STATUS_REQUEST_DESTROY
     /\ \E h \in Handlers : hs_timer_thread_entry(h)
  \/ /\ TeardownAfterCallback \/ RearmAfterCallback
     /\ \E h \in Handlers : hs_timer_thread_exit(h)

\* C14: on a live timer, timer_settime and timer_delete are only ever called
\* on a registration that timer_create returned and that has not been
\* deleted.
C14_RegistrationUsedOnlyWhileValid ==
  [][(heap = "live" /\ IssuesAlarmCall) => timer_id = "valid"]_vars

\* C15: whenever a live timer with a valid registration is PAUSED, its
\* alarm is disarmed.
C15_PausedMeansDisarmed ==
  (heap = "live" /\ timer_id = "valid"
     /\ status = E_HS_TIMER_STATUS_PAUSED) => ~Armed(it_value)

\* ------------------------------------------- the unlocked read of timer_cb
\* Lines 132-135 run after the unlock of line 129 and name hs_timer->timer_cb
\* twice.  hs_timer_thread_call_cb above is these lines in a build that
\* loads the field once; the two steps below are the same lines in a build
\* that loads it for the test of line 132 and again for the call of line
\* 134.  A call through a null function pointer ends the thread.
hs_timer_thread_check_cb(h) ==
  /\ pc[h] = "readcb"
  /\ Touch
  /\ pc' = [pc EXCEPT ![h] = IF timer_cb # NULL THEN "callcb" ELSE "lock2"]
  /\ UNCHANGED <<heap, fields, alarm, mutex, api, may_fail, frees, fired,
                 init_rc, deferred, paused_quiet>>

hs_timer_thread_invoke_cb(h) ==
  /\ pc[h] = "callcb"
  /\ Touch
  /\ IF timer_cb # NULL
     THEN /\ pc' = [pc EXCEPT ![h] = "incb"]
          /\ fired' = Bump(fired)
     ELSE /\ pc' = [pc EXCEPT ![h] = "idle"]
          /\ UNCHANGED fired
  /\ UNCHANGED <<heap, fields, alarm, mutex, api, may_fail, frees,
                 init_rc, deferred, paused_quiet>>

\* A forever timer whose callback is replaced while it fires.
NextRace ==
  \/ hs_timer_init_forever
  \/ AlarmFire
  \/ \E h \in Handlers : hs_timer_thread_entry(h)
  \/ \E h \in Handlers : hs_timer_thread_check_cb(h)
  \/ \E h \in Handlers : hs_timer_thread_invoke_cb(h)
  \/ \E h \in Handlers : CallbackReturn(h)
  \/ \E h \in Handlers : hs_timer_thread_exit(h)
  \/ \E t \in Threads, cb \in Callbacks : hs_timer_set_cb(t, cb)

SpecRace == InitForever /\ [][NextRace]_vars

\* C16: every read of a field is made under the mutex, so the timer_cb a
\* notification thread calls at line 134 is the value it found non-NULL at
\* line 132: no set_cb comes between the test and the call.
C16_CallbackReadUnderLock ==
  [][\A h \in Handlers :
       (pc[h] = "callcb" /\ pc'[h] # "callcb") => timer_cb # NULL]_vars

\* ------------------------------------------------- the mutex, step by step
\* pthread_mutex_lock as a step of its own: thread t, at a call of
\* pthread_mutex_lock (line 106 or 138 of hs_timer_thread, or the first
\* statement of a public function), gets the mutex.  What t does with it,
\* down to the unlock, is the next step of t.
WantsMutex(t) ==
  IF t \in Handlers THEN pc[t] \in {"lock1", "lock2", "incb"} ELSE TRUE

pthread_mutex_lock(t) ==
  /\ heap = "live"
  /\ WantsMutex(t)
  /\ mutex = {}
  /\ mutex' = {t}
  /\ UNCHANGED <<heap, fields, alarm, pc, api, may_fail, hist>>

\* The owner initializes the timer; every other call is made by a callback
\* on its own timer.
hs_timer_init_first ==
  status = E_HS_TIMER_STATUS_CREATED /\ hs_timer_init(Owner)

NextCallback ==
  \/ hs_timer_init_first
  \/ AlarmFire
  \/ \E h \in Handlers : pthread_mutex_lock(h)
  \/ \E h \in Handlers : hs_timer_thread_entry(h)
  \/ \E h \in Handlers : hs_timer_thread_call_cb(h)
  \/ \E h \in Handlers : CallbackReturn(h)
  \/ \E h \in Handlers : hs_timer_thread_exit(h)
  \/ \E h \in Handlers : hs_timer_thread_fault(h)
  \/ \E h \in Handlers : hs_timer_destroy(h)
  \/ \E h \in Handlers, cb \in Callbacks : hs_timer_set_cb(h, cb)
  \/ \E h \in Handlers, rc \in RepeatValues : hs_timer_set_repeat_count(h, rc)
  \/ \E h \in Handlers, tmo \in TimeoutValues : hs_timer_set_timeout(h, tmo)
  \/ \E h \in Handlers, ud \in UserData : hs_timer_set_user_data(h, ud)
  \/ \E h \in Handlers : hs_timer_get_repeat_count(h)
  \/ \E h \in Handlers : hs_timer_get_timeout(h)
  \/ \E h \in Handlers : hs_timer_get_user_data(h)
  \/ \E h \in Handlers : hs_timer_ready(h)
  \/ \E h \in Handlers : hs_timer_pause(h)
  \/ \E h \in Handlers : hs_timer_resume(h)
  \/ \E h \in Handlers : hs_timer_is_paused(h)

SpecCallback == Init /\ [][NextCallback]_vars

\* a step that gives the mutex up
Release == mutex # {} /\ NextCallback /\ mutex' = {}

\* a callback begins in notification thread h
CallbackBegins(h) == pc[h] # "incb" /\ pc'[h] = "incb"

\* a notification thread is at pthread_mutex_lock (line 106 or 138) on a
\* mutex that has been destroyed and freed: the call is undefined, and one
\* thing it can do is never return
AtFreedMutex(h) == pc[h] \in {"lock1", "lock2"} /\ heap = "freed"

\* C17: whoever holds the mutex can always go on to the unlock of the
\* section it is in; a notification thread does not hold the mutex when it
\* enters the callback; and no thread is left at a pthread_mutex_lock that
\* cannot return, whatever the callback called on its own timer.
C17_NoThreadWaitsForever ==
  /\ [](mutex # {} => ENABLED Release)
  /\ [][\A h \in Handlers : CallbackBegins(h) => h \notin mutex']_vars
  /\ [](\A h \in Handlers : ~AtFreedMutex(h))

\* ------------------------------------------ calls from the N-th callback
\* A timer initialized once with a finite repeat count N; its callback reads
\* the repeat count, and in the N-th invocation it also tries every setter,
\* pause, resume and ready.  Callbacks are counted.
InLastCallback == fired = init_rc

NextCount ==
  \/ InitOnce
  \/ AlarmFire
  \/ \E h \in Handlers : hs_timer_thread_entry(h)
  \/ \E h \in Handlers : hs_timer_thread_call_cb(h)
  \/ \E h \in Handlers : CallbackReturn(h)
  \/ \E h \in Handlers : hs_timer_thread_exit(h)
  \/ \E h \in Handlers : hs_timer_get_repeat_count(h)
  \/ \E h \in Handlers, cb \in Callbacks :
       InLastCallback /\ hs_timer_set_cb(h, cb)
  \/ \E h \in Handlers, rc \in RepeatValues :
       InLastCallback /\ hs_timer_set_repeat_count(h, rc)
  \/ \E h \in Handlers, tmo \in TimeoutValues :
       InLastCallback /\ hs_timer_set_timeout(h, tmo)
  \/ \E h \in Handlers, ud \in UserData :
       InLastCallback /\ hs_timer_set_user_data(h, ud)
  \/ \E h \in Handlers : InLastCallback /\ hs_timer_pause(h)
  \/ \E h \in Handlers : InLastCallback /\ hs_timer_resume(h)
  \/ \E h \in Handlers : InLastCallback /\ hs_timer_ready(h)

SpecCount == InitCounting /\ [][NextCount]_vars

\* C18: the repeat count is decremented before the callback is called: in
\* the k-th callback of a timer initialized with N, get_repeat_count
\* returns N - k; in the N-th it returns 0, and every setter, pause, resume
\* and ready returns -2 and changes nothing.
C18_DecrementBeforeCallback ==
  [][(\E h \in Handlers : pc[h] = "incb")
       => /\ (\E h \in Handlers : hs_timer_get_repeat_count(h))
               => /\ api'.ret = 0
                  /\ api'.val = init_rc - fired
                  /\ InLastCallback => api'.val = 0
          /\ (InLastCallback /\ SetterOrControlCall)
               => (api'.ret = -2 /\ UNCHANGED <<fields, alarm>>)]_vars

C18_Witness ==
  /\ \E h \in Handlers : pc[h] = "incb"
  /\ init_rc = MaxRepeat
  /\ fired = MaxRepeat
  /\ repeat_count = 0
  /\ status = E_HS_TIMER_STATUS_REQUEST_DESTROY
  /\ api = [op |-> "pause", ret |-> -2, val |-> NoVal]

\* a notification thread runs its section after the callback
ExitStep == \E h \in Handlers : pc[h] = "lock2" /\ hs_timer_thread_exit(h)

InProgress == {h \in Handlers : pc[h] # "idle"}

====
